---------------------------- MODULE Spec2Model ----------------------------
(***************************************************************************)
(* light-ron: the tokenizer (src/deserial/lexer.rs) and the pull parser    *)
(* (src/deserial/mod.rs) that turns RON text into a stream of events.      *)
(*                                                                         *)
(* The source text is a sequence of one-character strings (all characters  *)
(* used are one byte long, so a byte offset is a character index).  Every  *)
(* function of the program is an operator over a record `p` that holds the *)
(* whole deserializer (text, tokenizer position, token queue, context      *)
(* stack) and returns [p |-> the state after, v |-> the value returned].   *)
(* p.fl is "ok" while the call runs, "panic" once the code has panicked.   *)
(***************************************************************************)
EXTENDS Integers, Sequences, FiniteSets, TLC

VARIABLES
    src,        \* Lexer.src: the text, from the first byte still referenced on
    closed,     \* TRUE once the whole text is known (src ends where the text ends)
    pos,        \* Lexer.iter: offset of the next character the iterator yields
    trailing,   \* Lexer.trailing: the one character of pushback
    tok_queue,  \* RonDeserializer.tok_queue
    stack,      \* RonDeserializer.stack
    ev,         \* what the last call returned (an event, a token, or a failure)
    open,       \* the Start events returned so far that have no End event yet
    input,      \* the token spelling of the text, when it was fixed at construction
    calls       \* number of calls made after the first Eof

vars == <<src, closed, pos, trailing, tok_queue, stack, ev, open, input, calls>>

-----------------------------------------------------------------------------
(* Characters *)

Digits == {"0", "1", "2", "3", "4", "5", "6", "7", "8", "9"}

Letters ==
    {"a", "b", "c", "d", "e", "f", "g", "h", "i", "j", "k", "l", "m",
     "n", "o", "p", "q", "r", "s", "t", "u", "v", "w", "x", "y", "z",
     "A", "B", "C", "D", "E", "F", "G", "H", "I", "J", "K", "L", "M",
     "N", "O", "P", "Q", "R", "S", "T", "U", "V", "W", "X", "Y", "Z"}

\* char::is_whitespace
is_whitespace(c) == c \in {" ", "\t", "\n", "\r"}

\* char::is_numeric
is_numeric(c) == c \in Digits

\* char::is_alphanumeric
is_alphanumeric(c) == c \in Letters \cup Digits

-----------------------------------------------------------------------------
(* Option<(usize, char)>, Option<Token>, Option<&str> *)

NoChar == [off |-> -1, ch |-> ""]
SomeChar(o, c) == [off |-> o, ch |-> c]

NoTok == [t |-> "EOF"]
Punct(k) == [t |-> k]
Span(k, a, b) == [t |-> k, a |-> a, b |-> b]
Val(k, x) == [t |-> k, x |-> x]

NoName == [some |-> FALSE, s |-> <<>>]
SomeName(s) == [some |-> TRUE, s |-> s]

Ret(p, v) == [p |-> p, v |-> v]
Panic(p) == [p |-> [p EXCEPT !.fl = "panic"], v |-> NoTok]
Starve(p) == [p |-> [p EXCEPT !.fl = "starve"], v |-> NoTok]
Ok(r) == r.p.fl = "ok"


-----------------------------------------------------------------------------
(* str::parse::<i64>() and str::parse::<f64>() on the text of a literal.    *)
(* An i64 is kept as its sign and its decimal digits without leading zeros, *)
(* an f64 as sign, integer digits and fraction digits (exact decimal; the   *)
(* rounding of f64 is not modelled).                                        *)

DigitVal(c) ==
    CASE c = "0" -> 0 [] c = "1" -> 1 [] c = "2" -> 2 [] c = "3" -> 3
      [] c = "4" -> 4 [] c = "5" -> 5 [] c = "6" -> 6 [] c = "7" -> 7
      [] c = "8" -> 8 [] c = "9" -> 9

\* i64::MAX = 9223372036854775807 and -i64::MIN = 9223372036854775808
I64MaxDigits ==
    <<"9", "2", "2", "3", "3", "7", "2", "0", "3", "6", "8", "5", "4", "7", "7", "5", "8", "0", "7">>
I64MinDigits ==
    <<"9", "2", "2", "3", "3", "7", "2", "0", "3", "6", "8", "5", "4", "7", "7", "5", "8", "0", "8">>

RECURSIVE StripZeros(_)
StripZeros(d) ==
    IF Len(d) > 1 /\ d[1] = "0" THEN StripZeros(Tail(d)) ELSE d

RECURSIVE StripTrailingZeros(_)
StripTrailingZeros(d) ==
    IF Len(d) > 0 /\ d[Len(d)] = "0"
    THEN StripTrailingZeros(SubSeq(d, 1, Len(d) - 1))
    ELSE d

\* a <= b for two digit strings of the same length
RECURSIVE LeqDigits(_, _)
LeqDigits(a, b) ==
    IF Len(a) = 0 THEN TRUE
    ELSE IF DigitVal(a[1]) < DigitVal(b[1]) THEN TRUE
    ELSE IF DigitVal(a[1]) > DigitVal(b[1]) THEN FALSE
    ELSE LeqDigits(Tail(a), Tail(b))

HasSign(text) == Len(text) > 0 /\ text[1] \in {"-", "+"}
Unsigned(text) == IF HasSign(text) THEN Tail(text) ELSE text

ParseI64(text) ==
    LET neg   == Len(text) > 0 /\ text[1] = "-"
        body  == Unsigned(text)
        valid == Len(body) > 0 /\ \A i \in 1..Len(body) : body[i] \in Digits
        canon == StripZeros(body)
        limit == IF neg THEN I64MinDigits ELSE I64MaxDigits
        fits  == Len(canon) < Len(limit)
                 \/ (Len(canon) = Len(limit) /\ LeqDigits(canon, limit))
    IN  IF valid /\ fits
        THEN [ok |-> TRUE, x |-> [neg |-> neg /\ canon # <<"0">>, d |-> canon]]
        ELSE [ok |-> FALSE, x |-> [neg |-> FALSE, d |-> <<>>]]

ParseF64(text) ==
    LET neg   == Len(text) > 0 /\ text[1] = "-"
        body  == Unsigned(text)
        dots  == {i \in 1..Len(body) : body[i] = "."}
        valid == /\ \A i \in 1..Len(body) : body[i] \in Digits \cup {"."}
                 /\ Cardinality(dots) <= 1
                 /\ \E i \in 1..Len(body) : body[i] \in Digits
        dot   == IF dots = {} THEN Len(body) + 1 ELSE CHOOSE i \in dots : TRUE
        ip    == IF dot = 1 THEN <<"0">> ELSE StripZeros(SubSeq(body, 1, dot - 1))
        fp    == StripTrailingZeros(SubSeq(body, dot + 1, Len(body)))
    IN  IF valid
        THEN [ok |-> TRUE, x |-> [neg |-> neg, ip |-> ip, fp |-> fp]]
        ELSE [ok |-> FALSE, x |-> [neg |-> FALSE, ip |-> <<>>, fp |-> <<>>]]

-----------------------------------------------------------------------------
(* Lexer.  A function of the program is an operator from the deserializer   *)
(* p it is called on to the deserializer it leaves and its result v; the    *)
(* rest of a function after a call it makes is an operator of that call's   *)
(* result.                                                                   *)

\* src.len()
src_len(p) == Len(p.src)

\* &self.src[start..end]
get_string(p, start, end) ==
    IF start >= end THEN <<>> ELSE SubSeq(p.src, start + 1, end)

\* self.iter.next(): the next character and its offset, None at the end of the
\* text.  While the text is not closed, reading past what is known of it so
\* far leaves the call waiting for more text ("starve").
iter_next(p) ==
    IF p.pos < src_len(p)
    THEN Ret([p EXCEPT !.pos = @ + 1], SomeChar(p.pos, p.src[p.pos + 1]))
    ELSE IF p.closed THEN Ret(p, NoChar)
    ELSE Starve(p)

next_char(p) ==
    IF p.tr # NoChar
    THEN Ret([p EXCEPT !.tr = NoChar], p.tr)
    ELSE iter_next(p)

\* ignore_whitespaces from the character val it has just read: the `?`, the
\* while loop and the assignment to trailing; v is FALSE for None, TRUE for
\* Some(())
RECURSIVE skip_whitespaces(_)
skip_whitespaces(val) ==
    IF ~Ok(val) \/ val.v = NoChar THEN Ret(val.p, FALSE)
    ELSE IF is_whitespace(val.v.ch) THEN skip_whitespaces(iter_next(val.p))
    ELSE Ret([val.p EXCEPT !.tr = val.v], TRUE)

ignore_whitespaces(p) == skip_whitespaces(next_char(p))

\* read_string from the second character val it has read: the `?` and the
\* while loop
RECURSIVE read_string_loop(_, _)
read_string_loop(start, val) ==
    IF ~Ok(val) \/ val.v = NoChar THEN Ret(val.p, NoTok)
    ELSE IF val.v.ch # "\"" THEN read_string_loop(start, next_char(val.p))
    ELSE Ret(val.p, Span("Str", start.off, val.v.off))

\* read_string from the first character it has read
read_string_start(start) ==
    IF ~Ok(start) \/ start.v = NoChar THEN Ret(start.p, NoTok)
    ELSE IF start.v.ch = "\"" THEN Ret(start.p, Span("Str", 0, 0))
    ELSE read_string_loop(start.v, next_char(start.p))

read_string(p) == read_string_start(next_char(p))

\* read_char from the second character it has read
read_char_end(start, end) ==
    IF ~Ok(end) \/ end.v = NoChar THEN Ret(end.p, NoTok)
    ELSE IF end.v.ch # "'" THEN Panic(end.p)
    ELSE Ret(end.p, Val("Char", start.ch))

\* read_char from the first character it has read
read_char_start(start) ==
    IF ~Ok(start) \/ start.v = NoChar THEN Ret(start.p, NoTok)
    ELSE IF start.v.ch = "'" THEN Panic(start.p)
    ELSE read_char_end(start.v, next_char(start.p))

read_char(p) == read_char_start(next_char(p))

\* the while-let loop of read_number from the character n it has read; v is
\* last_byte
RECURSIVE read_number_scan(_)
read_number_scan(n) ==
    IF ~Ok(n) THEN Ret(n.p, 0)
    ELSE IF n.v = NoChar THEN Ret(n.p, src_len(n.p))
    ELSE IF is_numeric(n.v.ch) \/ n.v.ch = "." THEN read_number_scan(next_char(n.p))
    ELSE Ret([n.p EXCEPT !.tr = n.v], n.v.off)

\* a read_number that tries the f64 parse before the i64 parse
read_number_parse_float_first(p, i, f) ==
    IF f.ok THEN Ret(p, Val("Float", f.x))
    ELSE IF i.ok THEN Ret(p, Val("Int", i.x))
    ELSE Panic(p)

\* the two parses of read_number
read_number_parse(p, i, f) ==
    IF i.ok THEN Ret(p, Val("Int", i.x))
    ELSE IF f.ok THEN Ret(p, Val("Float", f.x))
    ELSE Panic(p)

\* read_number after its loop
read_number_end(s, start_byte) ==
    IF ~Ok(s) THEN Ret(s.p, NoTok)
    ELSE read_number_parse(s.p, ParseI64(get_string(s.p, start_byte, s.v)),
                           ParseF64(get_string(s.p, start_byte, s.v)))

read_number(p, start_byte) ==
    read_number_end(read_number_scan(next_char(p)), start_byte)

\* the while-let loop of read_ident from the character n it has read; v is
\* last_byte
RECURSIVE read_ident_scan(_)
read_ident_scan(n) ==
    IF ~Ok(n) THEN Ret(n.p, 0)
    ELSE IF n.v = NoChar THEN Ret(n.p, src_len(n.p))
    ELSE IF is_alphanumeric(n.v.ch) \/ n.v.ch = "_" THEN read_ident_scan(next_char(n.p))
    ELSE Ret([n.p EXCEPT !.tr = n.v], n.v.off)

\* a read_ident whose span leaves out the character next_token read
read_ident_end_tail(s, start_byte) == Ret(s.p, <<start_byte + 1, s.v>>)

\* read_ident after its loop
read_ident_end(s, start_byte) == Ret(s.p, <<start_byte, s.v>>)

read_ident(p, start_byte) ==
    read_ident_end(read_ident_scan(next_char(p)), start_byte)

\* the match on the text of an identifier run
Keyword(text, a, b) ==
    CASE text = <<"f", "a", "l", "s", "e">> -> Val("Bool", FALSE)
      [] text = <<"t", "r", "u", "e">>      -> Val("Bool", TRUE)
      [] text = <<"S", "o", "m", "e">>      -> Punct("SomeOptValue")
      [] text = <<"N", "o", "n", "e">>      -> Punct("NoneOptValue")
      [] OTHER                              -> Span("Ident", a, b)

SingleChar(c) ==
    CASE c = "(" -> Punct("LParen")
      [] c = ")" -> Punct("RParen")
      [] c = "[" -> Punct("LBracket")
      [] c = "]" -> Punct("RBracket")
      [] c = "{" -> Punct("LCurly")
      [] c = "}" -> Punct("RCurly")
      [] c = ":" -> Punct("Colon")
      [] c = "," -> Punct("Comma")

\* a `_` arm that matches the keywords on the start of the identifier run
next_token_ident_start(ident) ==
    IF ~Ok(ident) THEN Ret(ident.p, NoTok)
    ELSE Ret(ident.p, Keyword(get_string(ident.p, ident.v[1],
                                         IF ident.v[2] > ident.v[1] + 4
                                         THEN ident.v[1] + 4 ELSE ident.v[2]),
                              ident.v[1], ident.v[2]))

\* the `_` arm of the match of Lexer::next_token, after read_ident
next_token_ident(ident) ==
    IF ~Ok(ident) THEN Ret(ident.p, NoTok)
    ELSE Ret(ident.p, Keyword(get_string(ident.p, ident.v[1], ident.v[2]),
                              ident.v[1], ident.v[2]))

\* Lexer::next_token from the character c it has read: the `?` and the match
next_token_match(c) ==
    IF ~Ok(c) \/ c.v = NoChar THEN Ret(c.p, NoTok)
    ELSE IF c.v.ch \in {"(", ")", "[", "]", "{", "}", ":", ","}
         THEN Ret(c.p, SingleChar(c.v.ch))
    ELSE IF c.v.ch = "\"" THEN read_string(c.p)
    ELSE IF c.v.ch = "'" THEN read_char(c.p)
    ELSE IF c.v.ch \in Digits \cup {"-"} THEN read_number(c.p, c.v.off)
    ELSE next_token_ident(read_ident(c.p, c.v.off))

\* Lexer::next_token after ignore_whitespaces
next_token_char(w) ==
    IF ~Ok(w) \/ ~w.v THEN Ret(w.p, NoTok) ELSE next_token_match(next_char(w.p))

\* Lexer::next_token: v is the token, NoTok for None
Lexer_next_token(p) == next_token_char(ignore_whitespaces(p))

-----------------------------------------------------------------------------
(* RonEvent, RonPrimitive, InternalState *)

NoEv == [e |-> "None"]
Ev(k) == [e |-> k]
Named(k, name) == [e |-> k, name |-> name]
NamedField(s) == [e |-> "NamedField", s |-> s]
Primitive(k, x) == [e |-> "Primitive", k |-> k, x |-> x]

Ctx(k) == [s |-> k]
NamedCtx(k, name) == [s |-> k, name |-> name]

Top(p) == IF Len(p.st) = 0 THEN Ctx("Empty") ELSE p.st[Len(p.st)]

\* self.stack.push(x), self.stack.pop(), self.tok_queue.insert(0, x)
\* (hi records the greatest length the queue has had since the call began)
push(p, x) == [p EXCEPT !.st = Append(@, x)]
pop(p) == [p EXCEPT !.st = SubSeq(@, 1, Len(@) - 1)]
insert0(p, x) ==
    [p EXCEPT !.q = <<x>> \o @,
              !.hi = IF Len(p.q) + 1 > @ THEN Len(p.q) + 1 ELSE @]

\* a panic!, a failed assert! or a failed expect
Fail(p) == Ret([p EXCEPT !.fl = "panic"], NoEv)

-----------------------------------------------------------------------------
(* RonDeserializer *)

next_token(p) ==
    IF Len(p.q) > 0
    THEN Ret([p EXCEPT !.q = Tail(@)], Head(p.q))
    ELSE Lexer_next_token(p)

\* the name of try_struct and try_tuple, from the result r1 of their first
\* next_token
ident_name(r1) ==
    IF r1.v.t = "Ident"
    THEN SomeName(get_string(r1.p, r1.v.a, r1.v.b))
    ELSE NoName

\* the deserializer after `let name = ..`: a token that is no identifier is
\* put back
after_name(r1) ==
    IF r1.v.t = "Ident" THEN r1.p ELSE insert0(r1.p, r1.v)

\* an `if name.is_some()` that puts the name's token back twice
unread_ident_twice(p, name, ident_tok) ==
    IF name.some THEN insert0(insert0(p, ident_tok), ident_tok) ELSE p

\* if name.is_some() { self.tok_queue.insert(0, ident_tok) }
unread_ident(p, name, ident_tok) ==
    IF name.some THEN insert0(p, ident_tok) ELSE p

\* try_struct with every token but the ':' taken as the start of a field
try_struct_colon_any(name, ident_tok, paren_tok, field_tok, r4) ==
    IF ~Ok(r4) THEN Ret(r4.p, NoEv)
    ELSE IF r4.v = NoTok
         THEN Ret(unread_ident(insert0(insert0(r4.p, field_tok), paren_tok),
                               name, ident_tok), NoEv)
    ELSE Ret(push(insert0(insert0(r4.p, r4.v), field_tok), NamedCtx("Struct", name)),
             Named("StructStart", name))

\* try_struct from its fourth next_token on
try_struct_colon(name, ident_tok, paren_tok, field_tok, r4) ==
    IF ~Ok(r4) THEN Ret(r4.p, NoEv)
    ELSE IF r4.v = NoTok
         THEN Ret(unread_ident(insert0(insert0(r4.p, field_tok), paren_tok),
                               name, ident_tok), NoEv)
    ELSE IF r4.v.t # "Colon"
         THEN Ret(unread_ident(insert0(insert0(insert0(r4.p, r4.v), field_tok),
                                       paren_tok),
                               name, ident_tok), NoEv)
    ELSE Ret(push(insert0(insert0(r4.p, r4.v), field_tok), NamedCtx("Struct", name)),
             Named("StructStart", name))

\* try_struct putting a third token that is no identifier back behind the '('
try_struct_field_swapped(name, ident_tok, paren_tok, r3) ==
    IF ~Ok(r3) THEN Ret(r3.p, NoEv)
    ELSE IF r3.v = NoTok
         THEN Ret(unread_ident(insert0(r3.p, paren_tok), name, ident_tok), NoEv)
    ELSE IF r3.v.t # "Ident"
         THEN Ret(unread_ident(insert0(insert0(r3.p, paren_tok), r3.v),
                               name, ident_tok), NoEv)
    ELSE try_struct_colon(name, ident_tok, paren_tok, r3.v, next_token(r3.p))

\* try_struct from its third next_token on
try_struct_field(name, ident_tok, paren_tok, r3) ==
    IF ~Ok(r3) THEN Ret(r3.p, NoEv)
    ELSE IF r3.v = NoTok
         THEN Ret(unread_ident(insert0(r3.p, paren_tok), name, ident_tok), NoEv)
    ELSE IF r3.v.t # "Ident"
         THEN Ret(unread_ident(insert0(insert0(r3.p, r3.v), paren_tok),
                               name, ident_tok), NoEv)
    ELSE try_struct_colon(name, ident_tok, paren_tok, r3.v, next_token(r3.p))

\* try_struct from its second next_token on
try_struct_paren(name, ident_tok, r2) ==
    IF ~Ok(r2) THEN Ret(r2.p, NoEv)
    ELSE IF r2.v = NoTok THEN Ret(unread_ident(r2.p, name, ident_tok), NoEv)
    ELSE IF r2.v.t # "LParen"
         THEN Ret(unread_ident(insert0(r2.p, r2.v), name, ident_tok), NoEv)
    ELSE try_struct_field(name, ident_tok, r2.v, next_token(r2.p))

\* try_struct from its first next_token on
try_struct_ident(r1) ==
    IF ~Ok(r1) \/ r1.v = NoTok THEN Ret(r1.p, NoEv)
    ELSE try_struct_paren(ident_name(r1), r1.v, next_token(after_name(r1)))

try_struct(p) == try_struct_ident(next_token(p))

\* try_tuple from its second next_token on
try_tuple_paren(name, ident_tok, r2) ==
    IF ~Ok(r2) THEN Ret(r2.p, NoEv)
    ELSE IF r2.v = NoTok THEN Ret(unread_ident(r2.p, name, ident_tok), NoEv)
    ELSE IF r2.v.t = "LParen"
         THEN Ret(push(r2.p, NamedCtx("Tuple", name)), Named("TupleStart", name))
    ELSE Ret(unread_ident(insert0(r2.p, r2.v), name, ident_tok), NoEv)

\* try_tuple from its first next_token on
try_tuple_ident(r1) ==
    IF ~Ok(r1) \/ r1.v = NoTok THEN Ret(r1.p, NoEv)
    ELSE try_tuple_paren(ident_name(r1), r1.v, next_token(after_name(r1)))

try_tuple(p) == try_tuple_ident(next_token(p))

\* try_list returning ListStart without pushing List
try_list_no_push(r) ==
    IF ~Ok(r) \/ r.v = NoTok THEN Ret(r.p, NoEv)
    ELSE IF r.v.t = "LBracket" THEN Ret(r.p, Ev("ListStart"))
    ELSE Ret(insert0(r.p, r.v), NoEv)

\* try_list from its next_token on
try_list_tok(r) ==
    IF ~Ok(r) \/ r.v = NoTok THEN Ret(r.p, NoEv)
    ELSE IF r.v.t = "LBracket" THEN Ret(push(r.p, Ctx("List")), Ev("ListStart"))
    ELSE Ret(insert0(r.p, r.v), NoEv)

try_list(p) == try_list_tok(next_token(p))

\* a try_map that does not put back the token it read
try_map_no_unread(r) ==
    IF ~Ok(r) \/ r.v = NoTok THEN Ret(r.p, NoEv)
    ELSE IF r.v.t = "LCurly" THEN Ret(push(r.p, Ctx("Map")), Ev("MapStart"))
    ELSE Ret(r.p, NoEv)

\* try_map from its next_token on
try_map_tok(r) ==
    IF ~Ok(r) \/ r.v = NoTok THEN Ret(r.p, NoEv)
    ELSE IF r.v.t = "LCurly" THEN Ret(push(r.p, Ctx("Map")), Ev("MapStart"))
    ELSE Ret(insert0(r.p, r.v), NoEv)

try_map(p) == try_map_tok(next_token(p))

\* a try_optional_some that rolls back when no '(' follows the `Some`
try_optional_some_rollback(r2) ==
    IF ~Ok(r2) THEN Ret(r2.p, NoEv)
    ELSE IF r2.v = NoTok THEN Ret(insert0(r2.p, Punct("SomeOptValue")), NoEv)
    ELSE IF r2.v # Punct("LParen")
         THEN Ret(insert0(insert0(r2.p, r2.v), Punct("SomeOptValue")), NoEv)
    ELSE Ret(push(r2.p, Ctx("OptionalSomeValue")), Ev("OptionalSomeValue"))

\* try_optional_some from its assert! on
try_optional_some_paren(r2) ==
    IF ~Ok(r2) THEN Ret(r2.p, NoEv)
    ELSE IF r2.v # Punct("LParen") THEN Fail(r2.p)
    ELSE Ret(push(r2.p, Ctx("OptionalSomeValue")), Ev("OptionalSomeValue"))

\* try_optional_some from its first next_token on
try_optional_some_tok(r) ==
    IF ~Ok(r) \/ r.v = NoTok THEN Ret(r.p, NoEv)
    ELSE IF r.v.t = "SomeOptValue" THEN try_optional_some_paren(next_token(r.p))
    ELSE Ret(insert0(r.p, r.v), NoEv)

try_optional_some(p) == try_optional_some_tok(next_token(p))

\* a try_primitive that returns the primitive of an identifier and puts the
\* token back
try_primitive_peek(r) ==
    IF ~Ok(r) \/ r.v = NoTok THEN Ret(r.p, NoEv)
    ELSE CASE r.v.t = "Ident" ->
                Ret(insert0(r.p, r.v), Primitive("Enum", get_string(r.p, r.v.a, r.v.b)))
           [] r.v.t \in {"Bool", "Float", "Int", "Char"} ->
                Ret(r.p, Primitive(r.v.t, r.v.x))
           [] r.v.t = "Str" ->
                Ret(r.p, Primitive("Str", get_string(r.p, r.v.a, r.v.b)))
           [] r.v.t = "NoneOptValue" ->
                Ret(r.p, Ev("OptionalNone"))
           [] OTHER -> Ret(insert0(r.p, r.v), NoEv)

\* try_primitive with the `_` arm of its match forgetting to put the token back
try_primitive_no_unread(r) ==
    IF ~Ok(r) \/ r.v = NoTok THEN Ret(r.p, NoEv)
    ELSE CASE r.v.t = "Ident" ->
                Ret(r.p, Primitive("Enum", get_string(r.p, r.v.a, r.v.b)))
           [] r.v.t \in {"Bool", "Float", "Int", "Char"} ->
                Ret(r.p, Primitive(r.v.t, r.v.x))
           [] r.v.t = "Str" ->
                Ret(r.p, Primitive("Str", get_string(r.p, r.v.a, r.v.b)))
           [] r.v.t = "NoneOptValue" ->
                Ret(r.p, Primitive("NoneOptValue", <<>>))
           [] OTHER -> Ret(r.p, NoEv)

\* try_primitive from its next_token on
try_primitive_tok(r) ==
    IF ~Ok(r) \/ r.v = NoTok THEN Ret(r.p, NoEv)
    ELSE CASE r.v.t = "Ident" ->
                Ret(r.p, Primitive("Enum", get_string(r.p, r.v.a, r.v.b)))
           [] r.v.t \in {"Bool", "Float", "Int", "Char"} ->
                Ret(r.p, Primitive(r.v.t, r.v.x))
           [] r.v.t = "Str" ->
                Ret(r.p, Primitive("Str", get_string(r.p, r.v.a, r.v.b)))
           [] r.v.t = "NoneOptValue" ->
                Ret(r.p, Primitive("NoneOptValue", <<>>))
           [] OTHER -> Ret(insert0(r.p, r.v), NoEv)

try_primitive(p) == try_primitive_tok(next_token(p))

\* try_value from the result of each alternative on: an event is returned,
\* None goes on to the next alternative
or_try_list(e) == IF ~Ok(e) \/ e.v # NoEv THEN e ELSE try_list(e.p)
or_try_map(d) == IF ~Ok(d) \/ d.v # NoEv THEN d ELSE or_try_list(try_map(d.p))
or_try_optional_some(c) ==
    IF ~Ok(c) \/ c.v # NoEv THEN c ELSE or_try_map(try_optional_some(c.p))
or_try_primitive(b) ==
    IF ~Ok(b) \/ b.v # NoEv THEN b ELSE or_try_optional_some(try_primitive(b.p))
or_try_tuple(a) ==
    IF ~Ok(a) \/ a.v # NoEv THEN a ELSE or_try_primitive(try_tuple(a.p))

try_value(p) == or_try_tuple(try_struct(p))

\* an expect that lets None through
expect_lenient(r) == r

\* .expect(..) on the result of try_value
expect(r) == IF Ok(r) /\ r.v = NoEv THEN Fail(r.p) ELSE r

\* self.try_value().expect(..)
expect_value(p) == expect(try_value(p))

\* assert!(.. == Some(tok)) on the result of next_token
assert_eq(r, tok) == IF Ok(r) /\ r.v # tok THEN Fail(r.p) ELSE r

\* assert!(self.next_token() == Some(tok))
assert_token(p, tok) == assert_eq(next_token(p), tok)

\* the second match of a container arm: the closing delimiter; v is TRUE when
\* the container was closed (and popped)
close_match(r2, close) ==
    IF ~Ok(r2) THEN Ret(r2.p, FALSE)
    ELSE IF r2.v = NoTok THEN Ret([r2.p EXCEPT !.fl = "panic"], FALSE)
    ELSE IF r2.v = Punct(close) THEN Ret(pop(r2.p), TRUE)
    ELSE Ret(insert0(r2.p, r2.v), FALSE)

\* a first match that puts a ',' back like any other token
comma_match_keep(r1, close) ==
    IF ~Ok(r1) THEN Ret(r1.p, FALSE)
    ELSE IF r1.v = NoTok THEN Ret([r1.p EXCEPT !.fl = "panic"], FALSE)
    ELSE close_match(next_token(insert0(r1.p, r1.v)), close)

\* a first match after whose ',' the closing delimiter is not looked for: a
\* ',' must be followed by an element
comma_match_strict(r1, close) ==
    IF ~Ok(r1) THEN Ret(r1.p, FALSE)
    ELSE IF r1.v = NoTok THEN Ret([r1.p EXCEPT !.fl = "panic"], FALSE)
    ELSE IF r1.v = Punct("Comma") THEN Ret(r1.p, FALSE)
    ELSE close_match(next_token(insert0(r1.p, r1.v)), close)

\* the first match of a container arm, on the result of next_token: a ',' is
\* consumed, another token is put back; then the second match
comma_match(r1, close) ==
    IF ~Ok(r1) THEN Ret(r1.p, FALSE)
    ELSE IF r1.v = NoTok THEN Ret([r1.p EXCEPT !.fl = "panic"], FALSE)
    ELSE close_match(next_token(IF r1.v = Punct("Comma") THEN r1.p
                                ELSE insert0(r1.p, r1.v)),
                     close)

\* the two matches that open the Map, Struct, Tuple and List arms
comma_or_close(p, close) == comma_match(next_token(p), close)

\* the Map arm after the assert! on ':'
map_colon(key, colon) ==
    IF ~Ok(colon) THEN Ret(colon.p, NoEv)
    ELSE Ret(push(colon.p, Ctx("SecondValue")), key.v)

\* the Map arm after `let key = ..`
map_key(key) ==
    IF ~Ok(key) THEN key ELSE map_colon(key, assert_token(key.p, Punct("Colon")))

\* the Map arm after its two matches
map_entry(c) ==
    IF ~Ok(c) THEN Ret(c.p, NoEv)
    ELSE IF c.v THEN Ret(c.p, Ev("MapEnd"))
    ELSE map_key(expect_value(c.p))

map_arm(p) == map_entry(comma_or_close(p, "RCurly"))

\* a Struct arm that announces a field without pushing SecondValue
struct_colon_no_push(ident, colon) ==
    IF ~Ok(colon) THEN Ret(colon.p, NoEv)
    ELSE Ret(colon.p, NamedField(ident))

\* the Struct arm after the assert! on ':'
struct_colon(ident, colon) ==
    IF ~Ok(colon) THEN Ret(colon.p, NoEv)
    ELSE Ret(push(colon.p, Ctx("SecondValue")), NamedField(ident))

\* the Struct arm after the next_token of `let ident = ..`
struct_ident(id) ==
    IF ~Ok(id) THEN Ret(id.p, NoEv)
    ELSE IF id.v.t # "Ident" THEN Fail(id.p)
    ELSE struct_colon(get_string(id.p, id.v.a, id.v.b),
                      assert_token(id.p, Punct("Colon")))

\* a Struct arm that ends every struct without a name
struct_field_unnamed_end(name, c) ==
    IF ~Ok(c) THEN Ret(c.p, NoEv)
    ELSE IF c.v THEN Ret(c.p, Named("StructEnd", NoName))
    ELSE struct_ident(next_token(c.p))

\* the Struct arm after its two matches
struct_field(name, c) ==
    IF ~Ok(c) THEN Ret(c.p, NoEv)
    ELSE IF c.v THEN Ret(c.p, Named("StructEnd", name))
    ELSE struct_ident(next_token(c.p))

struct_arm(p) == struct_field(Top(p).name, comma_or_close(p, "RParen"))

\* the Tuple arm after its two matches
tuple_element(name, c) ==
    IF ~Ok(c) THEN Ret(c.p, NoEv)
    ELSE IF c.v THEN Ret(c.p, Named("TupleEnd", name))
    ELSE expect_value(c.p)

tuple_arm(p) == tuple_element(Top(p).name, comma_or_close(p, "RParen"))

\* the List arm after its two matches
list_element(c) ==
    IF ~Ok(c) THEN Ret(c.p, NoEv)
    ELSE IF c.v THEN Ret(c.p, Ev("ListEnd"))
    ELSE expect_value(c.p)

list_arm(p) == list_element(comma_or_close(p, "RBracket"))

\* the None arm: `if let Some(x) = self.try_value() .. else Eof`
value_or_eof(r) == IF ~Ok(r) \/ r.v # NoEv THEN r ELSE Ret(r.p, Ev("Eof"))

RECURSIVE next_event(_)

\* the EndedOptionalSomeValue arm after its assert!: pop, and `continue`
ended_optional_some(r) ==
    IF ~Ok(r) THEN Ret(r.p, NoEv) ELSE next_event(pop(r.p))

next_event(p) ==
    CASE Top(p).s = "Map" -> map_arm(p)
      [] Top(p).s = "Struct" -> struct_arm(p)
      [] Top(p).s = "SecondValue" -> expect_value(pop(p))
      [] Top(p).s = "Tuple" -> tuple_arm(p)
      [] Top(p).s = "List" -> list_arm(p)
      [] Top(p).s = "OptionalSomeValue" ->
            expect_value(push(pop(p), Ctx("EndedOptionalSomeValue")))
      [] Top(p).s = "EndedOptionalSomeValue" ->
            ended_optional_some(assert_token(p, Punct("RParen")))
      [] Top(p).s = "Empty" -> value_or_eof(try_value(p))

-----------------------------------------------------------------------------
(* The deserializer as a state machine *)

\* the deserializer the variables describe, as the operators take it
Cur ==
    [src |-> src, closed |-> closed, pos |-> pos, tr |-> trailing,
     q |-> tok_queue, st |-> stack, fl |-> "ok", hi |-> Len(tok_queue)]

\* RonDeserializer::new(src) on a text of which `text` is known so far
New(text, whole) ==
    /\ src = text
    /\ closed = whole
    /\ pos = 0
    /\ trailing = NoChar
    /\ tok_queue = <<>>
    /\ stack = <<>>
    /\ ev = NoEv
    /\ open = <<>>
    /\ calls = 0

Failure == [e |-> "Panic"]
Failed == ev = Failure

\* The first byte of the text that is still referenced: by the iterator, by
\* the character pushed back, or by the span of a queued token.  No operation
\* reads the bytes before it, so the model drops them from `src` and counts
\* offsets from the first byte kept (the program's offset is the model's plus
\* the number of bytes dropped).  The span of an empty string is (0, 0) in the
\* program wherever the string is, and stays (0, 0).
HasSpan(tok) == tok.t \in {"Ident", "Str"} /\ tok.a < tok.b

Referenced(p) ==
    LET lows == {p.q[i].a : i \in {j \in 1..Len(p.q) : HasSpan(p.q[j])}}
                \cup {p.pos}
                \cup (IF p.tr = NoChar THEN {} ELSE {p.tr.off})
    IN  CHOOSE m \in lows : \A n \in lows : m <= n

Rebase(tok, lo) ==
    IF HasSpan(tok) THEN Span(tok.t, tok.a - lo, tok.b - lo) ELSE tok

StartKinds == {"StructStart", "TupleStart", "MapStart", "ListStart"}
EndKinds == {"StructEnd", "TupleEnd", "MapEnd", "ListEnd"}

EndOf(e) ==
    CASE e.e = "StructStart" -> Named("StructEnd", e.name)
      [] e.e = "TupleStart"  -> Named("TupleEnd", e.name)
      [] e.e = "MapStart"    -> Ev("MapEnd")
      [] e.e = "ListStart"   -> Ev("ListEnd")
      [] OTHER               -> NoEv

\* the Start events still open after event e: a Start event is added, an End
\* event removes the innermost one if that is the one it ends, and stays in
\* the list (for good) if it is not
Opened(o, e) ==
    IF e.e \in StartKinds THEN Append(o, e)
    ELSE IF e.e \in EndKinds
         THEN IF Len(o) > 0 /\ EndOf(o[Len(o)]) = e
              THEN SubSeq(o, 1, Len(o) - 1)
              ELSE Append(o, e)
    ELSE o

MaxDepth == 2
MaxCalls == 2

\* the pieces the text is made of, and the ways it can end: with a complete
\* lexeme, or inside a string literal that is never closed
Lexemes ==
    { <<"(">>, <<")">>, <<"[">>, <<"]">>, <<"{">>, <<"}">>, <<":">>, <<",">>,
      <<"a", " ">>, <<"1", " ">>, <<"S", "o", "m", "e", " ">>,
      <<"\"", "s", "\"">>, <<"'", "'">> }

Tails == { <<>>, <<"\"", "s">> }

\* The text is fixed when the deserializer is constructed, and the
\* deserializer reads it on demand: the model makes the next piece of it known
\* when a call needs it.
Feed ==
    /\ ~Failed /\ ~closed
    /\ next_event(Cur).p.fl = "starve"
    /\ \E w \in Lexemes : src' = src \o w
    /\ UNCHANGED <<closed, pos, trailing, tok_queue, stack, ev, open, input, calls>>

\* the text ends here
Close ==
    /\ ~Failed /\ ~closed
    /\ next_event(Cur).p.fl = "starve"
    /\ \E w \in Tails : src' = src \o w
    /\ closed' = TRUE
    /\ UNCHANGED <<pos, trailing, tok_queue, stack, ev, open, input, calls>>

\* what a call leaves behind: the deserializer p it ended with, without the
\* first lo bytes of the text
Kept(p, lo) ==
    /\ src' = SubSeq(p.src, lo + 1, Len(p.src))
    /\ pos' = p.pos - lo
    /\ trailing' = IF p.tr = NoChar THEN NoChar
                   ELSE SomeChar(p.tr.off - lo, p.tr.ch)
    /\ tok_queue' = [i \in 1..Len(p.q) |-> Rebase(p.q[i], lo)]
    /\ stack' = p.st

\* what a call that returned r leaves behind
Returned(r) == Kept(r.p, Referenced(r.p))

\* one call of next_event, that returned r (texts nested deeper than MaxDepth
\* are not followed)
Call(r) ==
    /\ r.p.fl # "starve"
    /\ Len(r.p.st) <= MaxDepth
    /\ IF r.p.fl = "panic"
       THEN /\ ev' = Failure
            /\ UNCHANGED <<src, pos, trailing, tok_queue, stack, open, calls>>
       ELSE /\ Returned(r)
            /\ ev' = r.v
            /\ open' = Opened(open, r.v)
            /\ calls' = IF ev = Ev("Eof") /\ calls < MaxCalls
                        THEN calls + 1 ELSE calls

NextEvent ==
    /\ ~Failed
    /\ Call(next_event(Cur))
    /\ UNCHANGED <<closed, input>>

Init == New(<<>>, FALSE) /\ input = <<>>

Next == Feed \/ Close \/ NextEvent

Spec == Init /\ [][Next]_vars

-----------------------------------------------------------------------------
(* The deserializer on a text that is fixed at construction.  A text is     *)
(* written as the list of its lexemes, and spelled with a blank after each. *)

Spelling(w) ==
    CASE w = "Some" -> <<"S", "o", "m", "e">>
      [] w = "None" -> <<"N", "o", "n", "e">>
      [] w = "str"  -> <<"\"", "s", "\"">>
      [] w = "''"   -> <<"'", "'">>
      [] OTHER      -> <<w>>

RECURSIVE Spell(_)
Spell(ws) ==
    IF ws = <<>> THEN <<>> ELSE Spelling(Head(ws)) \o <<" ">> \o Spell(Tail(ws))

\* The well-formed texts (primitive, option, struct, tuple, list, map, as in
\* the texts of the tests), without trailing commas: the values over S with
\* at most n elements in a container
Prims == { <<"1">>, <<"a">> }

RECURSIVE Lists(_, _)
Lists(S, n) ==
    IF n = 1 THEN S
    ELSE LET L == Lists(S, n - 1) IN L \cup {l \o <<",">> \o v : l \in L, v \in S}

Fields(S) == {<<"a", ":">> \o v : v \in S}
Entries(S) == {k \o <<":">> \o v : k \in S, v \in S}

Containers(S, n) ==
    {<<"Some", "(">> \o v \o <<")">> : v \in S}
    \cup {<<"[">> \o l \o <<"]">> : l \in Lists(S, n)}
    \cup {<<"(">> \o l \o <<")">> : l \in Lists(S, n)}
    \cup {<<"a", "(">> \o l \o <<")">> : l \in Lists(S, n)}
    \cup {<<"(">> \o l \o <<")">> : l \in Lists(Fields(S), n)}
    \cup {<<"a", "(">> \o l \o <<")">> : l \in Lists(Fields(S), n)}
    \cup {<<"{">> \o l \o <<"}">> : l \in Lists(Entries(S), n)}

MaxWidth == 2

Flat == Prims \cup Containers(Prims, MaxWidth)
WellFormed == Flat \cup Containers(Flat, 1)

\* every text of at most MaxShort lexemes, well-formed or not
MaxShort == 3
Words == {"(", ")", "[", "]", "{", "}", ":", ",", "a", "1", "Some"}
Short == UNION {[1..n -> Words] : n \in 0..MaxShort}

InitText ==
    /\ input \in WellFormed \cup Short
    /\ New(Spell(input), TRUE)

NextText == NextEvent

SpecText == InitText /\ [][NextText]_vars

\* the deserializer right after RonDeserializer::new on the text ws
Parser(ws) ==
    [src |-> Spell(ws), closed |-> TRUE, pos |-> 0, tr |-> NoChar,
     q |-> <<>>, st |-> <<>>, fl |-> "ok", hi |-> 0]

\* the events that repeated calls of next_event return, up to the first Eof
\* or up to the call that fails (n bounds the number of calls)
RECURSIVE Run(_, _)
Run(p, n) ==
    LET r == next_event(p)
    IN  IF r.p.fl = "panic" THEN <<Failure>>
        ELSE IF r.v = Ev("Eof") \/ n = 0 THEN <<r.v>>
        ELSE <<r.v>> \o Run(r.p, n - 1)

Events(ws) == Run(Parser(ws), 2 * Len(ws))

-----------------------------------------------------------------------------
(* What the claims speak of *)

Eof == Ev("Eof")
OptionalSome == Ev("OptionalSomeValue")

\* the next k tokens of the remaining token sequence (the queue, then the
\* tokens not lexed yet): NoTok from the end of the text on, Unknown from a
\* token on that is not known yet or does not lex
Unknown == [t |-> "?"]

RECURSIVE Ahead(_, _)
Ahead(p, k) ==
    IF k = 0 THEN <<>>
    ELSE LET r == next_token(p)
         IN  IF ~Ok(r) THEN [i \in 1..k |-> Unknown]
             ELSE IF r.v = NoTok THEN [i \in 1..k |-> NoTok]
             ELSE <<r.v>> \o Ahead(r.p, k - 1)

\* the text of an Ident token of the deserializer p
NameOf(p, tok) == SomeName(get_string(p, tok.a, tok.b))

\* the context stack entry a Start event stands for
CtxOf(e) ==
    CASE e.e = "StructStart" -> NamedCtx("Struct", e.name)
      [] e.e = "TupleStart"  -> NamedCtx("Tuple", e.name)
      [] e.e = "MapStart"    -> Ctx("Map")
      [] e.e = "ListStart"   -> Ctx("List")
      [] OTHER               -> Ctx("None")

ContainerKinds == {"Map", "Struct", "Tuple", "List"}

\* the Map, Struct, Tuple and List entries of a stack, bottom to top
RECURSIVE ContainersOf(_)
ContainersOf(st) ==
    IF st = <<>> THEN <<>>
    ELSE IF Head(st).s \in ContainerKinds
         THEN <<Head(st)>> \o ContainersOf(Tail(st))
         ELSE ContainersOf(Tail(st))

\* C1: on every well-formed text no call fails, every End event ends the
\* innermost Start event still open, and nothing is open when Eof is returned
C1_BalancedNesting ==
    input \in WellFormed =>
        /\ ~Failed
        /\ \A i \in 1..Len(open) : open[i].e \in StartKinds
        /\ (ev = Eof => open = <<>>)

\* C2: a call made after Eof was returned returns Eof again and leaves the
\* stack and the remaining token sequence (queue and tokenizer) as they were
C2_EofIdempotent ==
    [][ev = Eof =>
          /\ ev' = Eof
          /\ stack' = stack
          /\ tok_queue' = tok_queue
          /\ <<src, closed, pos, trailing>>' = <<src, closed, pos, trailing>>]_vars

C2_Witness == ev = Eof /\ calls = MaxCalls /\ tok_queue # <<>>

\* the shapes of the next four tokens that C3 speaks of
StructAhead(t) ==
    \/ t[1].t = "Ident" /\ t[2].t = "LParen" /\ t[3].t = "Ident" /\ t[4].t = "Colon"
    \/ t[1].t = "LParen" /\ t[2].t = "Ident" /\ t[3].t = "Colon"

TupleAhead(t) ==
    \/ t[1].t = "Ident" /\ t[2].t = "LParen" /\ ~(t[3].t = "Ident" /\ t[4].t = "Colon")
    \/ t[1].t = "LParen" /\ ~(t[2].t = "Ident" /\ t[3].t = "Colon")

EnumAhead(t) == t[1].t = "Ident" /\ t[2].t # "LParen"

NameAhead(p, t) == IF t[1].t = "Ident" THEN NameOf(p, t[1]) ELSE NoName

\* C3: wherever try_value runs to its end, [N] ( ident : gives StructStart
\* with name N, [N] ( followed by anything else gives TupleStart with name N,
\* and an identifier not followed by ( gives Primitive(Enum)
C3_Disambiguation ==
    LET t == Ahead(Cur, 4)
        r == try_value(Cur)
    IN  Ok(r) =>
          /\ StructAhead(t) => r.v = Named("StructStart", NameAhead(Cur, t))
          /\ TupleAhead(t) => r.v = Named("TupleStart", NameAhead(Cur, t))
          /\ EnumAhead(t) => r.v = Primitive("Enum", NameAhead(Cur, t).s)

C3_Witness ==
    /\ Top(Cur).s = "SecondValue"
    /\ StructAhead(Ahead(Cur, 4))
    /\ Ahead(Cur, 4)[1].t = "Ident"
    /\ Ok(try_value(Cur))

\* the index of the ')' that closes the '(' at i
RECURSIVE Closing(_, _, _)
Closing(ws, i, depth) ==
    IF i > Len(ws) THEN 0
    ELSE IF ws[i] = "(" THEN Closing(ws, i + 1, depth + 1)
    ELSE IF ws[i] = ")"
         THEN IF depth = 1 THEN i ELSE Closing(ws, i + 1, depth - 1)
    ELSE Closing(ws, i + 1, depth)

Without(ws, drop) ==
    LET keep == {i \in 1..Len(ws) : i \notin drop}
        nth(k) == CHOOSE i \in keep : Cardinality({j \in keep : j <= i}) = k
    IN  [k \in 1..Cardinality(keep) |-> ws[nth(k)]]

InsertAt(es, k, e) == SubSeq(es, 1, k) \o <<e>> \o SubSeq(es, k + 1, Len(es))

\* C4: in a well-formed text, Some ( X ) gives the events of the text without
\* the Some, the ( and its ), with OptionalSome put in front of the events of X
C4_OptionalTransparency ==
    (ev = NoEv /\ input \in WellFormed) =>
        \A i \in 1..Len(input) :
            input[i] = "Some" =>
                LET j     == Closing(input, i + 1, 0)
                    plain == Events(Without(input, {i, i + 1, j}))
                IN  \E k \in 0..Len(plain) :
                        Events(input) = InsertAt(plain, k, OptionalSome)

\* the events of a text without the final Eof
Body(ws) == LET es == Events(ws) IN SubSeq(es, 1, Len(es) - 1)

\* C5: { K : V } gives MapStart, the events of K, the events of V, MapEnd,
\* whatever values K and V are
C5_MapKeyAnyValue ==
    ev = NoEv =>
        \A K \in Flat, V \in Prims :
            input = <<"{">> \o K \o <<":">> \o V \o <<"}">> =>
                Events(input) = <<Ev("MapStart")>> \o Body(K) \o Body(V)
                                \o <<Ev("MapEnd"), Eof>>

Closers == {")", "]", "}"}
OpenerFor(c) == CASE c = ")" -> "(" [] c = "]" -> "[" [] c = "}" -> "{"

\* the index of the opening delimiter that the one at i closes, 0 if none
RECURSIVE Opening(_, _, _)
Opening(ws, j, depth) ==
    IF j = 0 THEN 0
    ELSE IF ws[j] \in Closers THEN Opening(ws, j - 1, depth + 1)
    ELSE IF ws[j] \in {"(", "[", "{"}
         THEN IF depth = 0 THEN j ELSE Opening(ws, j - 1, depth - 1)
    ELSE Opening(ws, j - 1, depth)

ClosesContainer(ws, i) ==
    /\ ws[i] \in Closers
    /\ LET j == Opening(ws, i - 1, 0)
       IN  /\ j > 0
           /\ ws[j] = OpenerFor(ws[i])
           /\ ~(j > 1 /\ ws[j - 1] = "Some")

\* C6: a text with one ',' put directly before the delimiter that closes a
\* list, tuple, struct or map gives the events of the text without it
C6_TrailingComma ==
    ev = NoEv =>
        \A i \in 2..Len(input) :
            (ClosesContainer(input, i) /\ input[i - 1] # ",") =>
                Events(InsertAt(input, i - 1, ",")) = Events(input)

C6_Witness ==
    /\ ev = Ev("MapEnd")
    /\ input = <<"{", "1", ":", "a", "}">>
    /\ Events(<<"{", "1", ":", "a", ",", "}">>) = Events(input)

\* C7: while no call has failed, the Map, Struct, Tuple and List entries of
\* the stack are, bottom to top, the Start events not yet ended, in the order
\* they were returned (an End event that did not end the innermost open Start
\* event would stay in `open`)
C7_StackIsOpenContainers ==
    ~Failed => ContainersOf(stack) = [i \in 1..Len(open) |-> CtxOf(open[i])]

C7_Witness ==
    /\ ev = Named("TupleEnd", SomeName(<<"a">>))
    /\ Len(open) = 1
    /\ ContainersOf(stack) = stack

CloserOf(k) ==
    CASE k = "Map" -> "RCurly" [] k = "List" -> "RBracket" [] OTHER -> "RParen"

AfterElement ==
    /\ Top(Cur).s \in ContainerKinds
    /\ ev.e \in {"Primitive"} \cup EndKinds

\* C8: in a Map, Struct, Tuple or List, after an element, a next token that
\* is neither ',' nor the closing delimiter makes the call fail
C8_CommaRequired ==
    LET t == Ahead(Cur, 1)[1]
    IN  (/\ AfterElement
         /\ t \notin {Unknown, NoTok}
         /\ t.t \notin {"Comma", CloserOf(Top(Cur).s)}
         /\ next_event(Cur).p.fl # "starve")
        => next_event(Cur).p.fl = "panic"

\* the text not read yet
Unread ==
    (IF trailing = NoChar THEN <<>> ELSE <<trailing.ch>>)
    \o SubSeq(src, pos + 1, Len(src))

RECURSIVE Trimmed(_)
Trimmed(cs) ==
    IF cs # <<>> /\ is_whitespace(Head(cs)) THEN Trimmed(Tail(cs)) ELSE cs

UnterminatedString ==
    LET u == Trimmed(Unread)
    IN  /\ closed
        /\ tok_queue = <<>>
        /\ u # <<>>
        /\ u[1] = "\""
        /\ \A i \in 2..Len(u) : u[i] # "\""

\* C9: a string literal that is never closed makes next_token, and with it
\* next_event, fail
C9_UnterminatedStringFails ==
    UnterminatedString =>
        /\ Lexer_next_token(Cur).p.fl = "panic"
        /\ next_event(Cur).p.fl = "panic"

NoTokenLeft == closed /\ Ahead(Cur, 1)[1] = NoTok

\* C10: Eof is returned only with an empty stack, and a call that finds no
\* token left while the stack is not empty fails
C10_EofOnlyWhenEmpty ==
    /\ ev = Eof => stack = <<>>
    /\ (NoTokenLeft /\ stack # <<>>) => next_event(Cur).p.fl = "panic"

C10_Witness ==
    /\ Failed
    /\ NoTokenLeft
    /\ Top(Cur).s = "EndedOptionalSomeValue"

-----------------------------------------------------------------------------
(* Texts whose first defect is a malformed literal: a prefix of a           *)
(* well-formed text, then an empty character literal or a lone '-'          *)

BadLiterals == {"''", "-"}

MaxPrefix == 4

Shorter(a, b) == IF a < b THEN a ELSE b

\* the first n lexemes of a well-formed text, n up to MaxPrefix
Prefixes ==
    UNION {{SubSeq(w, 1, n) : n \in 0..Shorter(Len(w), MaxPrefix)} : w \in WellFormed}

BadTexts == {ws \o <<b>> : ws \in Prefixes, b \in BadLiterals}

InitBad ==
    /\ input \in BadTexts
    /\ New(Spell(input), TRUE)

NextBad == NextEvent

SpecBad == InitBad /\ [][NextBad]_vars

Front(ws) == SubSeq(ws, 1, Len(ws) - 1)

IsPrefix(a, b) == Len(a) <= Len(b) /\ SubSeq(b, 1, Len(a)) = a

\* C11: the events returned for the text cut just before the malformed
\* literal (all but the final Eof or failure) are returned, in the same
\* order, before the failing call on the whole text
C11_EventsUntilFailure ==
    ev = NoEv => IsPrefix(Body(Front(input)), Events(input))

-----------------------------------------------------------------------------
(* Rollback *)

\* the whole remaining token sequence of the deserializer p: the queue, then
\* the tokens of the text not lexed yet (NoTok from the end of the text on;
\* the text has no more tokens than `input` has lexemes)
Remaining(p) == Ahead(p, Len(input) + 1)

\* the text not read yet by the lexer of p
UnreadOf(p) ==
    (IF p.tr = NoChar THEN <<>> ELSE <<p.tr.ch>>)
    \o SubSeq(p.src, p.pos + 1, Len(p.src))

\* a and b have the same queue and the same text left to lex (whitespace
\* aside), or no token left at all
SamePlace(a, b) ==
    /\ a.q = b.q
    /\ \/ Trimmed(UnreadOf(a)) = Trimmed(UnreadOf(b))
       \/ a.q = <<>> /\ Ahead(a, 1) = <<NoTok>> /\ Ahead(b, 1) = <<NoTok>>

\* the deserializer p after n calls of next_token
RECURSIVE Drain(_, _)
Drain(p, n) == IF n = 0 THEN p ELSE Drain(next_token(p).p, n - 1)

\* a, reached from b by reading tokens and putting tokens back, has the
\* remaining token sequence of b: the queue of a is the next tokens of b, and
\* once they are read both are at the same place
SameRemaining(a, b) ==
    /\ Ahead(b, Len(a.q)) = a.q
    /\ SamePlace(Drain(a, Len(a.q)), Drain(b, Len(a.q)))

\* what the call of an alternative that returned r has done, if it has not
\* failed: nothing when it returns None, at most one push when it returns an
\* event
Restored(r) ==
    Ok(r) =>
        IF r.v = NoEv
        THEN SameRemaining(r.p, Cur) /\ r.p.st = stack
        ELSE r.p.st = stack \/ (r.p.st # <<>> /\ pop(r.p).st = stack)

\* C12: try_struct, try_tuple, try_primitive, try_map, try_list and try_value,
\* when they return no value, leave the remaining token sequence and the
\* stack as they were; the stack is pushed only where an event is returned
C12_RollbackNonDestructive ==
    /\ Restored(try_struct(Cur))
    /\ Restored(try_tuple(Cur))
    /\ Restored(try_primitive(Cur))
    /\ Restored(try_map(Cur))
    /\ Restored(try_list(Cur))
    /\ Restored(try_value(Cur))

\* try_struct gives back three tokens: `( a ,` after a ListStart
C12_Witness ==
    /\ ev = Ev("ListStart")
    /\ try_struct(Cur).v = NoEv
    /\ Len(try_struct(Cur).p.q) = 3
    /\ Remaining(Cur)[3].t = "Comma"

-----------------------------------------------------------------------------
(* Names and struct bodies *)

\* C13: a call that returns StructEnd or TupleEnd returns it with the kind
\* and the name of the innermost Start event still open, which it ends
C13_EndCarriesStartName ==
    [][(NextEvent /\ ev'.e \in {"StructEnd", "TupleEnd"}) =>
          /\ open # <<>>
          /\ EndOf(open[Len(open)]) = ev'
          /\ open' = SubSeq(open, 1, Len(open) - 1)]_vars

\* a named tuple has just been ended inside an unnamed struct
C13_Witness ==
    /\ ev = Named("TupleEnd", SomeName(<<"a">>))
    /\ open = <<Named("StructStart", NoName)>>

\* the innermost context that still has events to give: the top of the stack
\* below the EndedOptionalSomeValue entries, which only wait for their ')'
RECURSIVE Innermost(_)
Innermost(st) ==
    IF st = <<>> THEN Ctx("Empty")
    ELSE IF st[Len(st)].s = "EndedOptionalSomeValue"
         THEN Innermost(SubSeq(st, 1, Len(st) - 1))
    ELSE st[Len(st)]

\* the events a value can begin with
ValueStarts == StartKinds \cup {"Primitive", "OptionalSomeValue"}

\* C14: at a struct's own level a call returns NamedField or StructEnd (so
\* the first event after StructStart, and the event after each complete
\* value), and the call after a NamedField returns the first event of a value
C14_StructAlternation ==
    [][NextEvent =>
          /\ Innermost(stack).s = "Struct" =>
                ev'.e \in {"NamedField", "StructEnd", "Panic"}
          /\ ev.e = "NamedField" =>
                /\ Top(Cur).s = "SecondValue"
                /\ ev'.e \in ValueStarts \cup {"Panic"}]_vars

\* a field of a struct has been announced and its value is due
C14_Witness ==
    /\ ev = NamedField(<<"a">>)
    /\ stack = <<NamedCtx("Struct", NoName), Ctx("SecondValue")>>
    /\ tok_queue = <<>>

-----------------------------------------------------------------------------
(* The lexer alone, on a text given whole: Lexer::new(text), then calls of  *)
(* Lexer::next_token until it returns None or panics.  `ev` holds the token *)
(* returned last.  A text is up to MaxChunks pieces put together without    *)
(* blanks between them, or one of a few number literals.                     *)

NotYet == Punct("NotYet")
LexFailure == Punct("Panic")

LexChunks ==
    { <<"S", "o", "m", "e">>, <<"N", "o", "n", "e">>, <<"t", "r", "u", "e">>,
      <<"f", "a", "l", "s", "e">>, <<"_">>, <<"a">>, <<"1">>, <<".">>, <<"-">>,
      <<"\"">>, <<" ">>, <<"(">>, <<":">> }

MaxChunks == 3

RECURSIVE Concat(_)
Concat(cs) == IF cs = <<>> THEN <<>> ELSE Head(cs) \o Concat(Tail(cs))

ChunkTexts == {Concat(cs) : cs \in UNION {[1..n -> LexChunks] : n \in 0..MaxChunks}}

NumberTexts ==
    { I64MaxDigits, I64MinDigits, <<"-">> \o I64MinDigits,
      <<"-">> \o I64MaxDigits \o <<"0">>, I64MaxDigits \o <<".">>,
      <<"1", ".", "1", ".", "1", " ", "1">> }

InitLex ==
    /\ src \in ChunkTexts \cup NumberTexts
    /\ closed = TRUE
    /\ pos = 0
    /\ trailing = NoChar
    /\ tok_queue = <<>>
    /\ stack = <<>>
    /\ ev = NotYet
    /\ open = <<>>
    /\ input = <<>>
    /\ calls = 0

\* what a call of Lexer::next_token that returned r leaves behind
Lexed(r) ==
    IF r.p.fl = "panic"
    THEN ev' = LexFailure /\ UNCHANGED <<pos, trailing>>
    ELSE ev' = r.v /\ pos' = r.p.pos /\ trailing' = r.p.tr

\* one call of Lexer::next_token
LexToken ==
    /\ ev \notin {LexFailure, NoTok}
    /\ Lexed(Lexer_next_token(Cur))
    /\ UNCHANGED <<src, closed, tok_queue, stack, open, input, calls>>

NextLex == LexToken

SpecLex == InitLex /\ [][NextLex]_vars

\* the text the next token is lexed from: the unread text without the
\* whitespace in front of it
Rest == Trimmed(Unread)

\* the longest prefix of cs made of characters of S
RECURSIVE RunOf(_, _)
RunOf(cs, S) ==
    IF cs # <<>> /\ Head(cs) \in S THEN <<Head(cs)>> \o RunOf(Tail(cs), S) ELSE <<>>

\* the prefix of cs before its first character c
RECURSIVE UpTo(_, _)
UpTo(cs, c) ==
    IF cs = <<>> \/ Head(cs) = c THEN <<>> ELSE <<Head(cs)>> \o UpTo(Tail(cs), c)

IdentChars == Letters \cup Digits \cup {"_"}

\* the text of the span of a Str or Ident token returned by r
SpanText(r) == get_string(r.p, r.v.a, r.v.b)

(* Spans *)

\* the characters between the quotes of the string literal that cs starts with
Between(cs) == UpTo(Tail(cs), "\"")

\* an identifier as a run of alphanumeric or '_' characters
IdentRun(cs) == RunOf(cs, IdentChars)

\* an identifier as lexer.rs reads it: the character no other arm of
\* next_token took, then the run of alphanumeric or '_' characters
IdentLexeme(cs) == <<Head(cs)>> \o RunOf(Tail(cs), IdentChars)

InStruct(p) == [p EXCEPT !.st = <<NamedCtx("Struct", NoName)>>]

\* the name a look-ahead r found in front of '(' is the text x, on the event
\* and on the context it pushed
NameIs(r, x) ==
    (Ok(r) /\ r.v # NoEv /\ r.v.name.some) =>
        r.v.name = SomeName(x) /\ Top(r.p).name = SomeName(x)

\* the field name read by the Struct arm is the text x
FieldIs(r, x) == (Ok(r) /\ r.v.e = "NamedField") => r.v.s = x

\* the events made of a Str token carry the text x
StrEvents(x) == try_primitive(Cur).v = Primitive("Str", x)

\* the events made of an Ident token carry the text x
IdentEvents(x) ==
    /\ try_primitive(Cur).v = Primitive("Enum", x)
    /\ NameIs(try_tuple(Cur), x)
    /\ NameIs(try_struct(Cur), x)
    /\ FieldIs(struct_arm(InStruct(Cur)), x)

StrSpan(r) ==
    (Ok(r) /\ r.v.t = "Str") =>
        /\ Head(Rest) = "\""
        /\ SpanText(r) = Between(Rest)
        /\ StrEvents(Between(Rest))

IdentSpanRun(r) ==
    (Ok(r) /\ r.v.t = "Ident") =>
        /\ SpanText(r) # <<>>
        /\ SpanText(r) = IdentRun(Rest)
        /\ IdentEvents(IdentRun(Rest))

IdentSpanLexeme(r) ==
    (Ok(r) /\ r.v.t = "Ident") =>
        /\ SpanText(r) = IdentLexeme(Rest)
        /\ IdentEvents(IdentLexeme(Rest))

\* C15: the span of a Str token is the text strictly between its quotes
\* (possibly empty), the span of an Ident token is exactly a run of
\* alphanumeric or '_' characters, and that text is what Primitive(Str),
\* Primitive(Enum), NamedField and the Start/End names carry.
C15_SpanFidelity ==
    StrSpan(Lexer_next_token(Cur)) /\ IdentSpanRun(Lexer_next_token(Cur))

\* C15, as the lexer has it: the span of an Ident token is its leading
\* character, whatever it is, followed by the run of alphanumeric or '_'
\* characters after it; the rest as stated.
C15_SpanFidelityLeading ==
    StrSpan(Lexer_next_token(Cur)) /\ IdentSpanLexeme(Lexer_next_token(Cur))

\* the lexer has just returned the empty string `""` and stands before `.`,
\* a generic identifier whose first character is not alphanumeric
C15_Witness ==
    /\ ev = Span("Str", 0, 0)
    /\ Rest = <<".">>
    /\ Lexer_next_token(Cur).v = Span("Ident", 2, 3)

(* Keywords *)

\* the offset in src of the first character of Rest
RestOffset == Len(src) - Len(Rest)

\* the token an identifier run stands for when it starts at offset a
RunToken(run, a) ==
    CASE run = <<"t", "r", "u", "e">>      -> Val("Bool", TRUE)
      [] run = <<"f", "a", "l", "s", "e">> -> Val("Bool", FALSE)
      [] run = <<"S", "o", "m", "e">>      -> Punct("SomeOptValue")
      [] run = <<"N", "o", "n", "e">>      -> Punct("NoneOptValue")
      [] OTHER                             -> Span("Ident", a, a + Len(run))

\* the call r of next_token took the whole run and nothing else, and
\* returned the token the whole run stands for
WholeRun(r, run) ==
    /\ Ok(r)
    /\ r.v = RunToken(run, RestOffset)
    /\ UnreadOf(r.p) = SubSeq(Rest, Len(run) + 1, Len(Rest))

\* C16: a run of alphanumeric or '_' characters that starts with a letter or
\* '_' is one token, decided by the spelling of the whole run: Bool for
\* `true` and `false`, the Some marker for `Some`, the None marker for
\* `None`, and for every other run (`Somea`, `None_`, `true1`) one Ident
\* token spanning the whole run.
C16_KeywordWholeRun ==
    (Rest # <<>> /\ Head(Rest) \in Letters \cup {"_"})
        => WholeRun(Lexer_next_token(Cur), IdentRun(Rest))

\* the lexer has returned the token of `(` and stands before `None_`, a run
\* that starts with a keyword
C16_Witness ==
    /\ ev = Punct("LParen")
    /\ Rest = <<"N", "o", "n", "e", "_">>
    /\ Lexer_next_token(Cur).v = Span("Ident", 1, 6)

(* Some *)

\* the call r, made with the tokens a ahead of it, a[1] being the Some
\* marker: it fails unless a[2] is '(', and when it returns it returns
\* OptionalSome
Committed(r, a) ==
    /\ (a[2] # Unknown /\ a[2] # Punct("LParen")) => r.p.fl = "panic"
    /\ Ok(r) => r.v = OptionalSome /\ a[2] = Punct("LParen")

\* the call r, made with the tokens a ahead of it, returns OptionalSome only
\* for a Some marker and a '('
OnlyAfterParen(r, a) ==
    (Ok(r) /\ r.v = OptionalSome) =>
        a[1] = Punct("SomeOptValue") /\ a[2] = Punct("LParen")

\* the call r of try_value, made with the tokens a ahead of it, returns
\* OptionalSome only with OptionalSomeValue pushed and a[1] and a[2], no
\* more, consumed
ParenConsumed(r, a) ==
    (Ok(r) /\ r.v = OptionalSome) =>
        /\ r.p.st = Append(stack, Ctx("OptionalSomeValue"))
        /\ Ahead(r.p, 2) = SubSeq(a, 3, 4)

\* the tokens a ahead of a call of next_event, without the ',' that the
\* Map, Struct, Tuple and List arms consume before the next element
AfterComma(a) ==
    IF Top(Cur).s \in ContainerKinds /\ a[1] = Punct("Comma") THEN Tail(a) ELSE a

\* C17: when the next token is the Some marker, parsing a value (try_value,
\* and next_event in any context, after the ',' it consumes in a container)
\* fails unless the token after it is '(',
\* end of input included; it never rolls the Some back to return nothing or
\* another event; and OptionalSome is returned only with the Some and the
\* '(' consumed.
C17_SomeCommits ==
    /\ Ahead(Cur, 1)[1] = Punct("SomeOptValue") =>
            Committed(try_value(Cur), Ahead(Cur, 4))
    /\ AfterComma(Ahead(Cur, 5))[1] = Punct("SomeOptValue") =>
            Committed(next_event(Cur), AfterComma(Ahead(Cur, 5)))
    /\ OnlyAfterParen(try_value(Cur), Ahead(Cur, 4))
    /\ OnlyAfterParen(next_event(Cur), AfterComma(Ahead(Cur, 5)))
    /\ ParenConsumed(try_value(Cur), Ahead(Cur, 4))

\* inside a list, `Some 1` is next and the call fails
C17_Witness ==
    /\ ev = Ev("ListStart")
    /\ Ahead(Cur, 1)[1] = Punct("SomeOptValue")
    /\ Ahead(Cur, 2)[2].t = "Int"
    /\ next_event(Cur).p.fl = "panic"

(* The end of the top level *)

\* the tokens that cannot start a value
Stoppers == {"RParen", "RBracket", "RCurly", "Colon", "Comma"}
StopWords == {")", "]", "}", ":", ","}

\* the call r returned Eof and left the stack and the remaining token
\* sequence as they were
Stopped(r) ==
    /\ Ok(r)
    /\ r.v = Eof
    /\ r.p.st = <<>>
    /\ Remaining(r.p) = Remaining(Cur)

\* the event of a primitive word of a text
PrimOf(w) ==
    IF w = "1" THEN Primitive("Int", [neg |-> FALSE, d |-> <<"1">>])
    ELSE Primitive("Enum", <<w>>)

\* the words of ws before its k-th are primitives and its k-th cannot start
\* a value
StopsAt(ws, k) ==
    /\ ws[k] \in StopWords
    /\ \A i \in 1..(k - 1) : <<ws[i]>> \in Prims

\* C18: with an empty stack and a next token that cannot start a value
\* (')', ']', '}', ':' or ','), next_event returns Eof without failing and
\* leaves that token at the front of the remaining token sequence; the
\* primitives in front of such a token at top level are returned one event
\* each before the Eof.
C18_StopperGivesEof ==
    /\ (stack = <<>> /\ Ahead(Cur, 1)[1].t \in Stoppers) => Stopped(next_event(Cur))
    /\ ev = NoEv =>
        \A k \in 1..Len(input) :
            StopsAt(input, k) =>
                Events(input) = [i \in 1..(k - 1) |-> PrimOf(input[i])] \o <<Eof>>

\* `1 a )`: both primitives have been returned, the stack is empty and ')'
\* is next
C18_Witness ==
    /\ input = <<"1", "a", ")">>
    /\ ev = Primitive("Enum", <<"a">>)
    /\ stack = <<>>
    /\ Ahead(Cur, 1)[1] = Punct("RParen")
    /\ next_event(Cur).v = Eof

-----------------------------------------------------------------------------
(* Texts with stray commas: a well-formed text with one ',' or two put      *)
(* right after the opening delimiter of one of its containers               *)

Openers == {"(", "[", "{"}

\* ws[k] opens a Map, Struct, Tuple or List (not the '(' of a Some)
OpensContainer(ws, k) == ws[k] \in Openers /\ ~(k > 1 /\ ws[k - 1] = "Some")

\* w with one ',' and with two after each of its opening delimiters
Strayed(w) ==
    UNION {{InsertAt(w, k, ","), InsertAt(InsertAt(w, k, ","), k, ",")} :
           k \in {j \in 1..Len(w) : OpensContainer(w, j)}}

\* the well-formed texts with at most two containers
CommaBase ==
    {w \in WellFormed : Cardinality({j \in 1..Len(w) : OpensContainer(w, j)}) <= 2}

CommaTexts == UNION {Strayed(w) : w \in CommaBase}

InitComma ==
    /\ input \in CommaTexts
    /\ New(Spell(input), TRUE)

NextComma == NextEvent

SpecComma == InitComma /\ [][NextComma]_vars

\* the index of the opening delimiter that the stray commas of ws follow
StrayAt(ws) == CHOOSE k \in 1..Len(ws) : ws[k] \in Openers /\ ws[k + 1] = ","

\* two stray commas in a row
Doubled(ws) == ws[StrayAt(ws) + 2] = ","

\* ws without its stray commas
Plain(ws) ==
    Without(ws, IF Doubled(ws) THEN {StrayAt(ws) + 1, StrayAt(ws) + 2}
                ELSE {StrayAt(ws) + 1})

\* the stray commas of ws are in the body of a struct
InStructBody(ws) ==
    /\ ws[StrayAt(ws)] = "("
    /\ Plain(ws)[StrayAt(ws) + 1] = "a"
    /\ Plain(ws)[StrayAt(ws) + 2] = ":"

Last(es) == es[Len(es)]

\* two commas in a row after an opening delimiter: the call after the
\* container's Start event fails
DoubledFails(ws) ==
    /\ Last(Events(ws)) = Failure
    /\ Events(ws) = Events(SubSeq(ws, 1, StrayAt(ws)))

\* C19: one stray ',' right after the opening delimiter of a list, tuple,
\* struct or map gives the events of the text without it; two in a row make
\* the call fail.
C19_LeadingComma ==
    ev = NoEv =>
        IF Doubled(input) THEN DoubledFails(input)
        ELSE Events(input) = Events(Plain(input))

\* C19, as the deserializer has it: one stray ',' right after the opening
\* delimiter of a list, tuple or map gives the events of the text without it;
\* right after the '(' of a struct it makes the text a tuple, which fails at
\* the ':' of the first field; two in a row make the call fail.
C19_LeadingCommaNotStruct ==
    ev = NoEv =>
        IF Doubled(input) THEN DoubledFails(input)
        ELSE IF InStructBody(input)
             THEN Last(Events(input)) = Failure
             ELSE Events(input) = Events(Plain(input))

\* `[ , 1 ]` has been read to its end like `[ 1 ]`
C19_Witness ==
    /\ input = <<"[", ",", "1", "]">>
    /\ ev = Eof
    /\ open = <<>>
    /\ tok_queue = <<>>

(* Numbers *)

\* the literal that the text cs starts with: its first character, then the
\* digits and '.' that follow
NumberLiteral(cs) == <<Head(cs)>> \o RunOf(Tail(cs), Digits \cup {"."})

\* the call r of next_token took the literal lit and nothing else, and made
\* it an Int when it parses as i64, else a Float when it parses as f64, else
\* it failed
Classified(r, lit) ==
    IF ParseI64(lit).ok
    THEN /\ Ok(r)
         /\ r.v = Val("Int", ParseI64(lit).x)
         /\ UnreadOf(r.p) = SubSeq(Rest, Len(lit) + 1, Len(Rest))
    ELSE IF ParseF64(lit).ok
    THEN /\ Ok(r)
         /\ r.v = Val("Float", ParseF64(lit).x)
         /\ UnreadOf(r.p) = SubSeq(Rest, Len(lit) + 1, Len(Rest))
    ELSE r.p.fl = "panic"

\* the literals the claim names
NamedLiterals(r) ==
    /\ Rest = I64MaxDigits => r.v = Val("Int", [neg |-> FALSE, d |-> I64MaxDigits])
    /\ Rest = I64MinDigits => r.v.t = "Float" /\ r.v.x.ip = I64MinDigits
    /\ Rest = <<"-">> \o I64MinDigits =>
            r.v = Val("Int", [neg |-> TRUE, d |-> I64MinDigits])
    /\ Rest = <<"-">> \o I64MaxDigits \o <<"0">> => r.v.t = "Float"
    /\ Rest = <<"-">> => r.p.fl = "panic"
    /\ Rest = <<"1", ".", "1", ".", "1", " ", "1">> => r.p.fl = "panic"
    /\ Rest = <<"1", ".", ".">> => r.p.fl = "panic"

\* C20: a text that starts with a digit or '-' gives one literal, that
\* character and every digit or '.' after it; the literal is an Int token
\* exactly when it parses as i64, otherwise a Float token when it parses as
\* f64 (so digits beyond the i64 range give a Float), otherwise the call
\* fails (a lone '-', or a literal with two '.', taken whole).
C20_NumberClassification ==
    (Rest # <<>> /\ Head(Rest) \in Digits \cup {"-"}) =>
        /\ Classified(Lexer_next_token(Cur), NumberLiteral(Rest))
        /\ NamedLiterals(Lexer_next_token(Cur))

\* the lexer has returned the Float of `-1.` and the text has ended
C20_Witness ==
    /\ src = <<"-", "1", ".">>
    /\ ev = Val("Float", [neg |-> TRUE, ip |-> <<"1">>, fp |-> <<>>])
    /\ Rest = <<>>

-----------------------------------------------------------------------------
(* Runs to the end: the deserializer on a whole text, called until Eof or   *)
(* a failure, whatever the depth of the text                                *)

RunTexts == CommaBase \cup Short

\* before RonDeserializer::new: no text yet
InitRun == New(<<>>, FALSE) /\ input = <<>>

\* RonDeserializer::new on one of the texts, given whole
Construct ==
    /\ ~closed
    /\ \E text \in RunTexts : input' = text /\ src' = Spell(text)
    /\ closed' = TRUE
    /\ UNCHANGED <<pos, trailing, tok_queue, stack, ev, open, calls>>

\* one call of next_event, that returned r
Step(r) ==
    IF r.p.fl = "panic"
    THEN /\ ev' = Failure
         /\ UNCHANGED <<src, pos, trailing, tok_queue, stack, open, calls>>
    ELSE /\ Returned(r)
         /\ ev' = r.v
         /\ open' = Opened(open, r.v)
         /\ calls' = IF ev = Ev("Eof") /\ calls < MaxCalls
                     THEN calls + 1 ELSE calls

RunEvent ==
    /\ closed
    /\ ~Failed
    /\ \E r \in {next_event(Cur)} : Step(r)
    /\ UNCHANGED <<closed, input>>

NextRun == Construct \/ RunEvent

\* a call of next_event is due: the deserializer is constructed, no call has
\* failed and Eof has not been returned
CanRun == closed /\ ~Failed /\ ev # Eof

\* the calls the consumer goes on making: weak fairness of RunEvent, with
\* CanRun as the condition under which a call is due
KeepsCalling == []<>~CanRun \/ []<><<RunEvent>>_vars

\* the deserializer is constructed, and the consumer calls next_event until
\* Eof or a failure
SpecRun == InitRun /\ [][NextRun]_vars /\ WF_vars(Construct) /\ KeepsCalling

\* the number of times the loop of next_event runs in a call on p: once more
\* after each EndedOptionalSomeValue arm that found its ')'
RECURSIVE Loops(_)
Loops(p) ==
    IF Top(p).s = "EndedOptionalSomeValue" /\ Ok(assert_token(p, Punct("RParen")))
    THEN 1 + Loops(pop(assert_token(p, Punct("RParen")).p))
    ELSE 1

\* the number of tokens of the remaining token sequence of p, counted up
\* to k
RECURSIVE TokensLeft(_, _)
RECURSIVE TokensFrom(_, _)
TokensFrom(r, k) ==
    IF ~Ok(r) \/ r.v = NoTok THEN 0 ELSE 1 + TokensLeft(r.p, k - 1)

TokensLeft(p, k) == IF k = 0 THEN 0 ELSE TokensFrom(next_token(p), k)

\* the call r that returned an event other than Eof has consumed a token
\* (the text has no more tokens than `input` has lexemes)
Consumes(r) ==
    (Ok(r) /\ r.v # Eof) =>
        TokensLeft(r.p, Len(input) + 1) < TokensLeft(Cur, Len(input) + 1)

\* the run is over: Eof has been returned, or a call has failed
Over == ev = Eof \/ Failed

\* C21: the loop of a call of next_event runs at most once per stack entry
\* and once more; every event returned other than Eof has consumed at least
\* one token; and on a finite text the calls reach Eof or a failure.
C21_Termination ==
    /\ [](Loops(Cur) <= Len(stack) + 1)
    /\ [](Consumes(next_event(Cur)))
    /\ <>Over

\* `Some ( Some ( 1 ) )`: the call that returned Eof ran the loop three times
C21_Witness ==
    /\ input = <<"Some", "(", "Some", "(", "1", ")", ")">>
    /\ ev = Primitive("Int", [neg |-> FALSE, d |-> <<"1">>])
    /\ Loops(Cur) = 3
    /\ next_event(Cur).v = Eof

-----------------------------------------------------------------------------
(* The token queue *)

\* C22: the token queue holds at most 2 tokens whenever next_event has
\* returned, and at most 4 at any point of a call (p.hi is the greatest
\* length the queue has had since the call began).
C22_QueueBounded ==
    /\ Len(tok_queue) <= 2
    /\ next_event(Cur).p.hi <= 4

\* a named tuple has been opened with two tokens put back, and the next call
\* puts four tokens back before it returns
C22_Witness ==
    /\ ev = Named("TupleStart", SomeName(<<"a">>))
    /\ Len(tok_queue) = 2
    /\ Ok(next_event(Cur))
    /\ next_event(Cur).p.hi = 4

-----------------------------------------------------------------------------
(* SecondValue *)

\* the SecondValue entries of the stack are on top of it
SecondValueOnTop ==
    \A i \in 1..Len(stack) : stack[i].s = "SecondValue" => i = Len(stack)

\* the entry beneath a SecondValue entry is a Map or a Struct
SecondValueOfPair ==
    \A i \in 1..Len(stack) :
        stack[i].s = "SecondValue" => i > 1 /\ stack[i - 1].s \in {"Map", "Struct"}

\* C23: in every reachable state a SecondValue entry is the top entry of the
\* stack, so there is at most one, and the entry directly beneath it is a
\* Map or a Struct.
C23_SecondValueOnContainer == SecondValueOnTop /\ SecondValueOfPair

=============================================================================
